---- MODULE Spec2Model ----
(***************************************************************************)
(* A model of src/src/vm.c: the LC-3 style virtual machine.  The state is  *)
(* the memory array, the register file, the loop flag `running` and the    *)
(* console output; one action per case of the opcode switch and of the     *)
(* trap switch, each action being one whole iteration of the loop in main  *)
(* (fetch, increment of the program counter, dispatch, handler).           *)
(***************************************************************************)
EXTENDS Integers, Sequences, FiniteSets, TLC

----------------------------------------------------------------------------
\* Bounds of the model.

\* Number of words that follow the origin word in a program image.
ProgLen == 2

\* Number of iterations of the loop in main that a behaviour may take.
MaxCycles == 4

----------------------------------------------------------------------------
\* The enumerations of vm.c.

R_R0 == 0
R_R1 == 1
R_R2 == 2
R_R3 == 3
R_R4 == 4
R_R5 == 5
R_R6 == 6
R_R7 == 7
R_PC == 8
R_COND == 9
R_COUNT == 10

OP_BR == 0
OP_ADD == 1
OP_LD == 2
OP_ST == 3
OP_JSR == 4
OP_AND == 5
OP_LDR == 6
OP_STR == 7
OP_RTI == 8
OP_NOT == 9
OP_LDI == 10
OP_STI == 11
OP_JMP == 12
OP_RES == 13
OP_LEA == 14
OP_TRAP == 15

FL_POS == 1
FL_ZRO == 2
FL_NEG == 4

TRAP_GETC == 32
TRAP_OUT == 33
TRAP_PUTS == 34
TRAP_IN == 35
TRAP_PUTSP == 36
TRAP_HALT == 37

\* The number of elements of the array `memory` (uint16_t memory[UINT16_MAX]).
UINT16_MAX == 65535

PC_START == 12288

\* getchar() at end of input.
EOF == -1

----------------------------------------------------------------------------
\* Arithmetic of the C types.

\* Conversion of an int to uint16_t.
Wrap16(x) == x % 65536

RECURSIVE BitAnd(_, _)
\* a & b on non-negative integers.
BitAnd(a, b) ==
    IF a = 0 \/ b = 0 THEN 0
    ELSE (IF a % 2 = 1 /\ b % 2 = 1 THEN 1 ELSE 0) + 2 * BitAnd(a \div 2, b \div 2)

RECURSIVE BitOr(_, _)
\* a | b on non-negative integers.
BitOr(a, b) ==
    IF a = 0 THEN b
    ELSE IF b = 0 THEN a
    ELSE (IF a % 2 = 1 \/ b % 2 = 1 THEN 1 ELSE 0) + 2 * BitOr(a \div 2, b \div 2)

\* ~x on a uint16_t, converted back to uint16_t.
BitNot16(x) == 65535 - x

\* x >> n.
Shr(x, n) == x \div (2 ^ n)

\* The low 16 bits of x << n, 0 <= n <= 16: the shift is computed in int and
\* its uses keep only what a uint16_t holds.
Shl(x, n) == (x % (2 ^ (16 - n))) * (2 ^ n)

\* a && b, as an int.
LogicalAnd(a, b) == IF a # 0 /\ b # 0 THEN 1 ELSE 0

\* sign_extend without the extension: the field taken as unsigned.
zero_extend(x, bit_count) == x

\* sign_extend filling from one bit too high: 0xFFFF << (bit_count + 1).
sign_extend_gap(x, bit_count) ==
    IF BitAnd(Shr(x, bit_count - 1), 1) # 0
    THEN Wrap16(BitOr(x, IF bit_count < 16 THEN Shl(65535, bit_count + 1) ELSE 0))
    ELSE x

\* uint16_t sign_extend(uint16_t x, int bit_count)
sign_extend(x, bit_count) ==
    IF BitAnd(Shr(x, bit_count - 1), 1) # 0
    THEN Wrap16(BitOr(x, Shl(65535, bit_count)))
    ELSE x

\* uint16_t swap16(uint16_t x)
swap16(x) == Wrap16(BitOr(Shl(x, 8), Shr(x, 8)))

\* The flag update_condition stores for a register value.
FlagOf(v) ==
    IF v = 0 THEN FL_ZRO
    ELSE IF Shr(v, 15) # 0 THEN FL_NEG
    ELSE FL_POS

----------------------------------------------------------------------------
\* Inputs.

\* Values a read outside an array may produce (the build decides which):
\* zero, a positive word, a word with bit 15 set.
OobWords == {0, 1, 32768}

\* What getchar() may return: 'A', a byte with bit 7 set, end of input.
InputChars == {65, 128, EOF}

\* The instruction words program images are built from.
Words ==
    { 4709,    \* 0x1265 ADD  R1, R1, #5
      4221,    \* 0x107D ADD  R0, R1, #-3
      4161,    \* 0x1041 ADD  R0, R1, R1
      20545,   \* 0x5041 AND  R0, R1, R1
      20607,   \* 0x507F AND  R0, R1, #-1
      21088,   \* 0x5260 AND  R1, R1, #0
      37503,   \* 0x927F NOT  R1, R1
      36927,   \* 0x903F NOT  R0, R0
      3585,    \* 0x0E01 BRnzp #1
      1535,    \* 0x05FF BRz  #-1
      2049,    \* 0x0801 BRn  #1
      49216,   \* 0xC040 JMP  R1
      49600,   \* 0xC1C0 JMP  R7
      18432,   \* 0x4800 JSR  #0
      20479,   \* 0x4FFF JSR  #-1
      16832,   \* 0x41C0 JSRR R7
      16448,   \* 0x4040 JSRR R1
      9215,    \* 0x23FF LD   R1, #-1
      8192,    \* 0x2000 LD   R0, #0
      41982,   \* 0xA3FE LDI  R1, #-2
      41472,   \* 0xA200 LDI  R1, #0
      24703,   \* 0x607F LDR  R0, R1, #-1
      25680,   \* 0x6450 LDR  R2, R1, #16
      58367,   \* 0xE3FF LEA  R1, #-1
      57344,   \* 0xE000 LEA  R0, #0
      12288,   \* 0x3000 ST   R0, #0
      46079,   \* 0xB3FF STI  R1, #-1
      29200,   \* 0x7210 STR  R1, R0, #16
      29247,   \* 0x723F STR  R1, R0, #-1
      29279,   \* 0x725F STR  R1, R1, #31
      61472,   \* 0xF020 TRAP GETC
      61473,   \* 0xF021 TRAP OUT
      61474,   \* 0xF022 TRAP PUTS
      61475,   \* 0xF023 TRAP IN
      61476,   \* 0xF024 TRAP PUTSP
      61477,   \* 0xF025 TRAP HALT
      61478,   \* 0xF026 TRAP with an unassigned vector
      32768,   \* 0x8000 RTI
      53248 }  \* 0xD000 reserved opcode

\* The bytes of a file holding `words` as big-endian 16-bit words.
BigEndian(words) ==
    [i \in 1..(2 * Len(words)) |->
        IF i % 2 = 1 THEN words[(i + 1) \div 2] \div 256
                     ELSE words[i \div 2] % 256]

\* An image file whose words reach the end of the address space: origin
\* 0xFFFE followed by 'H', 'i', '!'.
HighImages == {BigEndian(<<65534, 72, 105, 33>>)}

\* The image files: the origin PC_START followed by ProgLen words, and the
\* images of HighImages.
Images ==
    {BigEndian(<<PC_START>> \o prog) : prog \in [1..ProgLen -> Words]}
        \cup HighImages

----------------------------------------------------------------------------
\* State.

VARIABLES
    memory,       \* uint16_t memory[]: the nonzero words, by index (static
                  \* storage starts zeroed)
    registers,    \* uint16_t registers[R_COUNT]
    running,      \* int running
    instruction,  \* uint16_t instruction: the word the last iteration fetched
    output,       \* the bytes written to stdout
    phase,        \* where main is: "load" (before the loop) or "loop"
    cycles,       \* iterations of the loop taken so far
    mem_index,    \* the indices into `memory` the last iteration used, in order
    reg_index,    \* the indices into `registers` the last iteration used
    image_file,   \* the bytes of the file read_image_file has read
    se_call       \* a call of sign_extend on its own: its arguments and result

vars == <<memory, registers, running, instruction, output, phase, cycles,
          mem_index, reg_index, image_file, se_call>>

\* The word of `mem` at index a, a < UINT16_MAX.
MemAt(mem, a) == IF a \in DOMAIN mem THEN mem[a] ELSE 0

\* `mem` with the word at index a set to v.
Store(mem, a, v) ==
    [x \in (IF v = 0 THEN DOMAIN mem \ {a} ELSE DOMAIN mem \cup {a}) |->
        IF x = a THEN v ELSE mem[x]]

\* uint16_t mem_read(uint16_t addr): the values memory[addr] may yield.  Index
\* UINT16_MAX is one past the array: the read yields what the build placed
\* there, possibly the first register.
mem_read(addr) ==
    IF addr < UINT16_MAX THEN {MemAt(memory, addr)}
    ELSE OobWords \cup {registers[R_R0]}

\* void mem_write(uint16_t addr, uint16_t val): the pairs <<memory, registers>>
\* that memory[addr] = val may leave.  A write at index UINT16_MAX lands
\* outside the array: in unused storage, or in the first register.
mem_write(regs, addr, val) ==
    IF addr < UINT16_MAX THEN {<<Store(memory, addr, val), regs>>}
    ELSE {<<memory, regs>>, <<memory, [regs EXCEPT ![R_R0] = val]>>}

\* update_condition written with |= in place of =.
update_condition_or(regs, r) ==
    {[regs EXCEPT ![R_COND] = BitOr(@, FlagOf(v))] :
        v \in (IF r < R_COUNT THEN {regs[r]} ELSE OobWords)}

\* void update_condition(uint16_t r): the register files it may leave.  An
\* index r >= R_COUNT reads outside the register file.
update_condition(regs, r) ==
    {[regs EXCEPT ![R_COND] = FlagOf(v)] :
        v \in (IF r < R_COUNT THEN {regs[r]} ELSE OobWords)}

----------------------------------------------------------------------------
\* Loading.

\* A uint16_t that fread filled with the bytes b0, b1 (little-endian host).
HostWord(b0, b1) == b0 + 256 * b1

\* void read_image_file(FILE *file): the memory it leaves, from `mem`.
read_image_file(mem, file) ==
    LET origin   == swap16(HostWord(file[1], file[2]))
        max_read == UINT16_MAX - origin
        avail    == (Len(file) - 2) \div 2
        read     == IF avail < max_read THEN avail ELSE max_read
        word(a)  == LET i == a - origin + 1
                    IN  swap16(HostWord(file[2 * i + 1], file[2 * i + 2]))
        at(a)    == IF a >= origin /\ a < origin + read THEN word(a)
                    ELSE MemAt(mem, a)
    IN  [a \in {x \in DOMAIN mem \cup (origin..(origin + read - 1)) : at(x) # 0}
            |-> at(a)]

\* No call of sign_extend on its own is under way.
NoCall == [x |-> 0, bit_count |-> 1, returned |-> FALSE, result |-> 0]

Init ==
    /\ memory = [a \in {} |-> 0]
    /\ registers = [r \in 0..(R_COUNT - 1) |-> 0]
    /\ running = FALSE
    /\ instruction = 0
    /\ output = <<>>
    /\ phase = "load"
    /\ cycles = 0
    /\ mem_index = <<>>
    /\ reg_index = {}
    /\ image_file = <<>>
    /\ se_call = NoCall

\* main setting registers[R_COND] = FL_ZRO before the loop.
main_load_cond_zro ==
    /\ phase = "load"
    /\ \E file \in Images :
           /\ memory' = read_image_file(memory, file)
           /\ image_file' = file
    /\ registers' = [registers EXCEPT ![R_PC] = PC_START, ![R_COND] = FL_ZRO]
    /\ running' = TRUE
    /\ phase' = "loop"
    /\ UNCHANGED <<instruction, output, cycles, mem_index, reg_index, se_call>>

\* main up to the loop: read_image of the image file named on the command
\* line, registers[R_PC] = PC_START, running = 1.
main_load ==
    /\ phase = "load"
    /\ \E file \in Images :
           /\ memory' = read_image_file(memory, file)
           /\ image_file' = file
    /\ registers' = [registers EXCEPT ![R_PC] = PC_START]
    /\ running' = TRUE
    /\ phase' = "loop"
    /\ UNCHANGED <<instruction, output, cycles, mem_index, reg_index, se_call>>

----------------------------------------------------------------------------
\* The loop of main.

\* The loop condition written as while (1).
LoopGuardAlways == TRUE

\* while (running)
LoopGuard == running

\* (instruction >> shift) & mask
Field(ins, shift, mask) == BitAnd(Shr(ins, shift), mask)

\* The words mem_read(registers[R_PC]++) may fetch.
Fetched == mem_read(registers[R_PC])

\* The register file after registers[R_PC]++.
Incr == [registers EXCEPT ![R_PC] = Wrap16(@ + 1)]

\* The offset added to the address of the instruction itself.
PcRelBeforeIncrement(regs, offset) == Wrap16(regs[R_PC] - 1 + offset)

\* registers[R_PC] + offset, converted to uint16_t.
PcRel(regs, offset) == Wrap16(regs[R_PC] + offset)

\* One iteration is due and its switch (op) selects `op`.
Dispatch(ins, op) ==
    /\ phase = "loop"
    /\ LoopGuard
    /\ cycles < MaxCycles
    /\ Shr(ins, 12) = op

\* The state an iteration leaves: ins was fetched at registers[R_PC]; midx and
\* ridx are the memory and register indices the handler used.
Commit(ins, mem, regs, out, run, midx, ridx) ==
    /\ instruction' = ins
    /\ memory' = mem
    /\ registers' = regs
    /\ output' = out
    /\ running' = run
    /\ mem_index' = <<registers[R_PC]>> \o midx
    /\ reg_index' = {R_PC} \cup ridx
    /\ cycles' = cycles + 1
    /\ phase' = phase
    /\ UNCHANGED <<image_file, se_call>>

case_OP_ADD ==
    \E ins \in Fetched :
        /\ Dispatch(ins, OP_ADD)
        /\ LET regs     == Incr
               r0       == Field(ins, 9, 7)
               r1       == Field(ins, 6, 7)
               imm_flag == Field(ins, 5, 1)
               imm5     == sign_extend(BitAnd(ins, 31), 5)
               r2       == BitAnd(ins, 7)
               val      == IF imm_flag # 0 THEN Wrap16(regs[r1] + imm5)
                           ELSE Wrap16(regs[r1] + regs[r2])
               used     == IF imm_flag # 0 THEN {r0, r1} ELSE {r0, r1, r2}
           IN  \E regs2 \in update_condition([regs EXCEPT ![r0] = val], r0) :
                   Commit(ins, memory, regs2, output, running, <<>>,
                          used \cup {R_COND})

\* imm_flag of OP_AND: (instruction >> 5) && 0x1
and_imm_flag(ins) == LogicalAnd(Shr(ins, 5), 1)

case_OP_AND ==
    \E ins \in Fetched :
        /\ Dispatch(ins, OP_AND)
        /\ LET regs     == Incr
               r0       == Field(ins, 9, 7)
               r1       == Field(ins, 6, 7)
               imm_flag == and_imm_flag(ins)
               imm5     == sign_extend(BitAnd(ins, 31), 5)
               r2       == BitAnd(ins, 7)
               val      == IF imm_flag # 0 THEN BitAnd(regs[r1], imm5)
                           ELSE BitAnd(regs[r1], regs[r2])
               used     == IF imm_flag # 0 THEN {r0, r1} ELSE {r0, r1, r2}
           IN  \E regs2 \in update_condition([regs EXCEPT ![r0] = val], r0) :
                   Commit(ins, memory, regs2, output, running, <<>>,
                          used \cup {R_COND})

case_OP_NOT ==
    \E ins \in Fetched :
        /\ Dispatch(ins, OP_NOT)
        /\ LET regs == Incr
               r0   == Field(ins, 9, 7)
               r1   == Field(ins, 6, 7)
               val  == BitNot16(regs[r1])
           IN  \E regs2 \in update_condition([regs EXCEPT ![r0] = val], r0) :
                   Commit(ins, memory, regs2, output, running, <<>>,
                          {r0, r1, R_COND})

case_OP_BR ==
    \E ins \in Fetched :
        /\ Dispatch(ins, OP_BR)
        /\ LET regs  == Incr
               cond  == Field(ins, 9, 7)
               regs2 == IF BitAnd(cond, regs[R_COND]) # 0
                        THEN [regs EXCEPT ![R_PC] =
                                 PcRel(regs, sign_extend(BitAnd(ins, 511), 9))]
                        ELSE regs
           IN  Commit(ins, memory, regs2, output, running, <<>>, {R_COND})

case_OP_JMP ==
    \E ins \in Fetched :
        /\ Dispatch(ins, OP_JMP)
        /\ LET regs == Incr
               br   == Field(ins, 6, 7)
           IN  Commit(ins, memory, [regs EXCEPT ![R_PC] = regs[br]], output,
                      running, <<>>, {br})

case_OP_JSR ==
    \E ins \in Fetched :
        /\ Dispatch(ins, OP_JSR)
        /\ LET regs  == Incr
               saved == [regs EXCEPT ![R_R7] = regs[R_PC]]
               b11   == Field(ins, 11, 1)
               br    == Field(ins, 6, 7)
               regs2 == IF b11 # 0
                        THEN [saved EXCEPT ![R_PC] =
                                 PcRel(saved, sign_extend(BitAnd(ins, 2047), 11))]
                        ELSE [saved EXCEPT ![R_PC] = saved[br]]
           IN  Commit(ins, memory, regs2, output, running, <<>>,
                      IF b11 # 0 THEN {R_R7} ELSE {R_R7, br})

\* OP_LD with the body of OP_ST: the register is written to memory.
case_OP_LD_stores ==
    \E ins \in Fetched :
        /\ Dispatch(ins, OP_LD)
        /\ LET regs   == Incr
               r0     == Field(ins, 9, 7)
               offset == sign_extend(BitAnd(ins, 511), 9)
               ea     == PcRel(regs, offset)
           IN  \E w \in mem_write(regs, ea, regs[R_PC]) :
                   Commit(ins, w[1], w[2], output, running, <<ea>>, {r0})

case_OP_LD ==
    \E ins \in Fetched :
        /\ Dispatch(ins, OP_LD)
        /\ LET regs   == Incr
               r0     == Field(ins, 9, 7)
               offset == sign_extend(BitAnd(ins, 511), 9)
               ea     == PcRel(regs, offset)
           IN  \E val \in mem_read(ea) :
               \E regs2 \in update_condition([regs EXCEPT ![r0] = val], r0) :
                   Commit(ins, memory, regs2, output, running, <<ea>>,
                          {r0, R_COND})

\* The handler assigns the loaded word to its local r0 and hands that word to
\* update_condition as the register index; no general register is written.
case_OP_LDI ==
    \E ins \in Fetched :
        /\ Dispatch(ins, OP_LDI)
        /\ LET regs   == Incr
               offset == sign_extend(BitAnd(ins, 511), 9)
               ea     == PcRel(regs, offset)
           IN  \E addr \in mem_read(ea) :
               \E r0 \in mem_read(addr) :
               \E regs2 \in update_condition(regs, r0) :
                   Commit(ins, memory, regs2, output, running, <<ea, addr>>,
                          {r0, R_COND})

\* The offset of OP_LDR: sign_extend(instruction & 0x3F, 6)
ldr_offset(ins) == sign_extend(BitAnd(ins, 63), 6)

case_OP_LDR ==
    \E ins \in Fetched :
        /\ Dispatch(ins, OP_LDR)
        /\ LET regs   == Incr
               r0     == Field(ins, 9, 7)
               br     == Field(ins, 6, 7)
               offset == ldr_offset(ins)
               ea     == Wrap16(regs[br] + offset)
           IN  \E val \in mem_read(ea) :
               \E regs2 \in update_condition([regs EXCEPT ![r0] = val], r0) :
                   Commit(ins, memory, regs2, output, running, <<ea>>,
                          {r0, br, R_COND})

case_OP_LEA ==
    \E ins \in Fetched :
        /\ Dispatch(ins, OP_LEA)
        /\ LET regs   == Incr
               r0     == Field(ins, 9, 7)
               offset == sign_extend(BitAnd(ins, 511), 9)
               val    == PcRel(regs, offset)
           IN  \E regs2 \in update_condition([regs EXCEPT ![r0] = val], r0) :
                   Commit(ins, memory, regs2, output, running, <<>>,
                          {r0, R_COND})

\* OP_ST followed by update_condition(r0), as the loads are.
case_OP_ST_flags ==
    \E ins \in Fetched :
        /\ Dispatch(ins, OP_ST)
        /\ LET regs   == Incr
               r0     == Field(ins, 9, 7)
               offset == sign_extend(BitAnd(ins, 511), 9)
               ea     == PcRel(regs, offset)
           IN  \E w \in mem_write(regs, ea, regs[r0]) :
               \E regs2 \in update_condition(w[2], r0) :
                   Commit(ins, w[1], regs2, output, running, <<ea>>,
                          {r0, R_COND})

case_OP_ST ==
    \E ins \in Fetched :
        /\ Dispatch(ins, OP_ST)
        /\ LET regs   == Incr
               r0     == Field(ins, 9, 7)
               offset == sign_extend(BitAnd(ins, 511), 9)
               ea     == PcRel(regs, offset)
           IN  \E w \in mem_write(regs, ea, regs[r0]) :
                   Commit(ins, w[1], w[2], output, running, <<ea>>, {r0})

case_OP_STI ==
    \E ins \in Fetched :
        /\ Dispatch(ins, OP_STI)
        /\ LET regs   == Incr
               r0     == Field(ins, 9, 7)
               offset == sign_extend(BitAnd(ins, 511), 9)
               ea     == PcRel(regs, offset)
           IN  \E addr \in mem_read(ea) :
               \E w \in mem_write(regs, addr, regs[r0]) :
                   Commit(ins, w[1], w[2], output, running, <<ea, addr>>, {r0})

\* The offset of OP_STR: sign_extend(instruction & 0x2F, 6)
str_offset(ins) == sign_extend(BitAnd(ins, 47), 6)

case_OP_STR ==
    \E ins \in Fetched :
        /\ Dispatch(ins, OP_STR)
        /\ LET regs   == Incr
               r0     == Field(ins, 9, 7)
               br     == Field(ins, 6, 7)
               offset == str_offset(ins)
               ea     == Wrap16(regs[br] + offset)
           IN  \E w \in mem_write(regs, ea, regs[r0]) :
                   Commit(ins, w[1], w[2], output, running, <<ea>>, {r0, br})

\* case OP_RES: case OP_RTI: default: an empty block.
case_OP_RES_OP_RTI ==
    \E ins \in Fetched :
        /\ Dispatch(ins, OP_RES) \/ Dispatch(ins, OP_RTI)
        /\ Commit(ins, memory, Incr, output, running, <<>>, {})

----------------------------------------------------------------------------
\* case OP_TRAP: the switch on instruction & 0xFF.

\* An iteration is due, its opcode is OP_TRAP and its vector is `vector`.
TrapDispatch(ins, vector) ==
    /\ Dispatch(ins, OP_TRAP)
    /\ BitAnd(ins, 255) = vector

\* The vectors the trap switch has a case for.
TrapVectors == {TRAP_GETC, TRAP_OUT, TRAP_PUTS, TRAP_IN, TRAP_PUTSP, TRAP_HALT}

\* The trap switch with the break of case TRAP_PUTSP missing: it falls through
\* into case TRAP_HALT.
TrapRunningFallthrough(vector) ==
    IF vector \in {TRAP_PUTSP, TRAP_HALT} THEN FALSE ELSE running

\* `running` after the trap case of `vector`: only TRAP_HALT assigns it.
TrapRunning(vector) == IF vector = TRAP_HALT THEN FALSE ELSE running

\* "Enter a character: "
Prompt == <<69, 110, 116, 101, 114, 32, 97, 32, 99, 104, 97, 114, 97, 99, 116,
            101, 114, 58, 32>>

\* What puts("HALT") writes.
HaltNotice == <<72, 65, 76, 84, 10>>

\* Word sequences a walk beyond the end of `memory` may find before a zero.
OobTails == {<<>>} \cup {<<w>> : w \in OobWords \ {0}}

RECURSIVE string_at(_)
\* uint16_t *c = memory + a; while (*c) ++c: the word sequences the walk may
\* pass before it finds a zero word.  The pointer is not wrapped: from index
\* UINT16_MAX on, the walk reads beyond the array.
string_at(a) ==
    IF a >= UINT16_MAX THEN OobTails
    ELSE IF MemAt(memory, a) = 0 THEN {<<>>}
    ELSE {<<MemAt(memory, a)>> \o t : t \in string_at(a + 1)}

\* The indices a walk over the words s from index a reads, the zero included.
WalkIndices(a, s) == [i \in 1..(Len(s) + 1) |-> a + i - 1]

\* putc((char)*c, stdout) for every word of s.
PutsBytes(s) == [i \in 1..Len(s) |-> s[i] % 256]

RECURSIVE PutspBytes(_)
\* For every word of s: its low byte, then its high byte when that is not 0.
PutspBytes(s) ==
    IF s = <<>> THEN <<>>
    ELSE LET c1 == s[1] % 256
             c2 == Shr(s[1], 8)
         IN  <<c1>> \o (IF c2 # 0 THEN <<c2>> ELSE <<>>) \o PutspBytes(Tail(s))

\* The value of `char c = getchar()` converted to uint16_t; whether char is
\* signed is the build's choice.
CharToWord(ch, signed) ==
    LET byte == ch % 256
    IN  IF signed /\ byte >= 128 THEN Wrap16(byte - 256) ELSE byte

\* TRAP_GETC storing the character in registers[R_R1].
trap_TRAP_GETC_R1 ==
    \E ins \in Fetched :
        /\ TrapDispatch(ins, TRAP_GETC)
        /\ \E ch \in InputChars :
               Commit(ins, memory, [Incr EXCEPT ![R_R1] = Wrap16(ch)], output,
                      TrapRunning(TRAP_GETC), <<>>, {R_R1})

trap_TRAP_GETC ==
    \E ins \in Fetched :
        /\ TrapDispatch(ins, TRAP_GETC)
        /\ \E ch \in InputChars :
               Commit(ins, memory, [Incr EXCEPT ![R_R0] = Wrap16(ch)], output,
                      TrapRunning(TRAP_GETC), <<>>, {R_R0})

trap_TRAP_OUT ==
    \E ins \in Fetched :
        /\ TrapDispatch(ins, TRAP_OUT)
        /\ Commit(ins, memory, Incr, Append(output, registers[R_R0] % 256),
                  TrapRunning(TRAP_OUT), <<>>, {R_R0})

trap_TRAP_PUTS ==
    \E ins \in Fetched :
        /\ TrapDispatch(ins, TRAP_PUTS)
        /\ \E s \in string_at(registers[R_R0]) :
               Commit(ins, memory, Incr, output \o PutsBytes(s),
                      TrapRunning(TRAP_PUTS),
                      WalkIndices(registers[R_R0], s), {R_R0})

trap_TRAP_IN ==
    \E ins \in Fetched :
        /\ TrapDispatch(ins, TRAP_IN)
        /\ \E ch \in InputChars :
           \E signed \in BOOLEAN :
               Commit(ins, memory,
                      [Incr EXCEPT ![R_R0] = CharToWord(ch, signed)],
                      output \o Prompt \o <<ch % 256>>,
                      TrapRunning(TRAP_IN), <<>>, {R_R0})

trap_TRAP_PUTSP ==
    \E ins \in Fetched :
        /\ TrapDispatch(ins, TRAP_PUTSP)
        /\ \E s \in string_at(registers[R_R0]) :
               Commit(ins, memory, Incr, output \o PutspBytes(s),
                      TrapRunning(TRAP_PUTSP),
                      WalkIndices(registers[R_R0], s), {R_R0})

trap_TRAP_HALT ==
    \E ins \in Fetched :
        /\ TrapDispatch(ins, TRAP_HALT)
        /\ Commit(ins, memory, Incr, output \o HaltNotice,
                  TrapRunning(TRAP_HALT), <<>>, {})

\* The trap switch with a default label on the block of case TRAP_HALT.
trap_default_halts ==
    \E ins \in Fetched :
        /\ Dispatch(ins, OP_TRAP)
        /\ BitAnd(ins, 255) \notin TrapVectors
        /\ Commit(ins, memory, Incr, output \o HaltNotice, FALSE, <<>>, {})

\* A vector the trap switch has no case for.
trap_default ==
    \E ins \in Fetched :
        /\ Dispatch(ins, OP_TRAP)
        /\ BitAnd(ins, 255) \notin TrapVectors
        /\ Commit(ins, memory, Incr, output, running, <<>>, {})

----------------------------------------------------------------------------

Next ==
    \/ main_load
    \/ case_OP_ADD
    \/ case_OP_AND
    \/ case_OP_NOT
    \/ case_OP_BR
    \/ case_OP_JMP
    \/ case_OP_JSR
    \/ case_OP_LD
    \/ case_OP_LDI
    \/ case_OP_LDR
    \/ case_OP_LEA
    \/ case_OP_ST
    \/ case_OP_STI
    \/ case_OP_STR
    \/ case_OP_RES_OP_RTI
    \/ trap_TRAP_GETC
    \/ trap_TRAP_OUT
    \/ trap_TRAP_PUTS
    \/ trap_TRAP_IN
    \/ trap_TRAP_PUTSP
    \/ trap_TRAP_HALT
    \/ trap_default

Spec == Init /\ [][Next]_vars

----------------------------------------------------------------------------
\* sign_extend on its own, for every argument.

\* The width of uint16_t.
WordBits == 16

\* The n low bits set.
Mask(n) == 2 ^ n - 1

\* The calls sign_extend(v & mask(n), n): every 16-bit v, every n in 1..16.
InitSignExtend ==
    /\ memory = [a \in {} |-> 0]
    /\ registers = [r \in 0..(R_COUNT - 1) |-> 0]
    /\ running = FALSE
    /\ instruction = 0
    /\ output = <<>>
    /\ phase = "load"
    /\ cycles = 0
    /\ mem_index = <<>>
    /\ reg_index = {}
    /\ image_file = <<>>
    /\ \E v \in 0..(2 ^ WordBits - 1), n \in 1..WordBits :
           se_call = [x |-> BitAnd(v, Mask(n)), bit_count |-> n,
                      returned |-> FALSE, result |-> 0]

\* The call returns.
sign_extend_call ==
    /\ ~se_call.returned
    /\ se_call' = [se_call EXCEPT
                      !.returned = TRUE,
                      !.result = sign_extend(se_call.x, se_call.bit_count)]
    /\ UNCHANGED <<memory, registers, running, instruction, output, phase,
                   cycles, mem_index, reg_index, image_file>>

NextSignExtend == sign_extend_call

SpecSignExtend == InitSignExtend /\ [][NextSignExtend]_vars

----------------------------------------------------------------------------
\* Vocabulary of the properties.

\* This step is one iteration of the loop.
Stepped == cycles' = cycles + 1

\* The opcode of an instruction word.
OpOf(ins) == Shr(ins, 12)

\* The instructions documented to update the condition flags.
FlagOps == {OP_ADD, OP_AND, OP_NOT, OP_LD, OP_LDI, OP_LDR, OP_LEA}

Flags == {FL_POS, FL_ZRO, FL_NEG}

\* The signed integer the low n bits of x denote in two's complement.
Signed(x, n) ==
    LET low == x % (2 ^ n)
    IN  IF low >= 2 ^ (n - 1) THEN low - 2 ^ n ELSE low

\* The address (pc + the signed n-bit offset field of ins) mod 65536.
Target(pc, ins, n) == (pc + Signed(ins, n)) % 65536

\* The address of the instruction that follows the one at registers[R_PC].
NextPc == (registers[R_PC] + 1) % 65536

\* The loop has ended.
Halted == phase = "loop" /\ ~running

\* This step executes TRAP with vector 0x25.
ExecutesHalt ==
    /\ Stepped
    /\ OpOf(instruction') = OP_TRAP
    /\ instruction' % 256 = TRAP_HALT

----------------------------------------------------------------------------
\* C1: a cycle that executes TRAP HALT leaves the engine halted, and once it is
\* halted no further cycle runs: the registers (PC, R0..R7, COND) and the
\* memory keep their values, whatever follows at PC.
C1_HaltIsTerminal ==
    [][/\ ExecutesHalt => Halted'
       /\ Halted => /\ Halted'
                    /\ ~Stepped
                    /\ registers' = registers
                    /\ memory' = memory]_vars

\* C1 witness: halted by TRAP HALT with a nonzero word following at PC.
C1_Witness ==
    /\ Halted
    /\ instruction = 61477
    /\ MemAt(memory, registers[R_PC]) # 0

\* C2: after a flag-updating instruction (ADD, AND, NOT, LD, LDI, LDR, LEA),
\* COND is the flag of the value in that instruction's destination register,
\* and every other instruction leaves COND as it is.
C2_CondIsFlagOfResult ==
    [][Stepped =>
        IF OpOf(instruction') \in FlagOps
        THEN registers'[R_COND] =
                 FlagOf(registers'[Field(instruction', 9, 7)])
        ELSE registers'[R_COND] = registers[R_COND]]_vars

\* C3: LDI leaves in register DR the word Memory[Memory[PC_incremented +
\* sign_extend(offset9)]] and sets COND from register DR.
C3_LdiLoadsIndirect ==
    [][(Stepped /\ OpOf(instruction') = OP_LDI) =>
        LET dr   == Field(instruction', 9, 7)
            ea   == Target(NextPc, instruction', 9)
            addr == MemAt(memory, ea)
        IN  (ea < UINT16_MAX /\ addr < UINT16_MAX) =>
                /\ registers'[dr] = MemAt(memory, addr)
                /\ registers'[R_COND] = FlagOf(registers'[dr])]_vars

\* C4: AND selects its mode by bit 5 alone: DR = SR1 & SR2 when bit 5 is 0,
\* DR = SR1 & sign_extend(imm5) when it is 1; COND is then set from DR.
C4_AndModeByBit5 ==
    [][(Stepped /\ OpOf(instruction') = OP_AND) =>
        LET ins == instruction'
            dr  == Field(ins, 9, 7)
            sr1 == Field(ins, 6, 7)
            sr2 == ins % 8
            rhs == IF (ins \div 32) % 2 = 0 THEN registers[sr2]
                   ELSE Signed(ins, 5) % 65536
        IN  /\ registers'[dr] = BitAnd(registers[sr1], rhs)
            /\ registers'[R_COND] = FlagOf(registers'[dr])]_vars

\* C5: JSR leaves the return address (the incremented PC) in R7 and sets PC to
\* return address + sign_extend(offset11) when bit 11 is 1, and to the value
\* BaseR held before the instruction when bit 11 is 0, BaseR = R7 included.
C5_JsrTarget ==
    [][(Stepped /\ OpOf(instruction') = OP_JSR) =>
        LET ins   == instruction'
            baser == Field(ins, 6, 7)
        IN  /\ registers'[R_R7] = NextPc
            /\ registers'[R_PC] =
                   IF (ins \div 2048) % 2 = 1 THEN Target(NextPc, ins, 11)
                   ELSE registers[baser]]_vars

\* C6: STR writes SR to Memory[BaseR + sign_extend(offset6)] for each of the 64
\* offsets, changes no other memory word and not COND, and addresses the word
\* LDR addresses with the same BaseR and offset6.
C6_StrAddress ==
    [][(Stepped /\ OpOf(instruction') = OP_STR) =>
        LET ins == instruction'
            sr  == Field(ins, 9, 7)
            br  == Field(ins, 6, 7)
            ea  == Target(registers[br], ins, 6)
        IN  ea < UINT16_MAX =>
                /\ mem_index'[2] = ea
                /\ mem_index'[2] = Wrap16(registers[br] + ldr_offset(ins))
                /\ memory' = Store(memory, ea, registers[sr])
                /\ registers'[R_COND] = registers[R_COND]]_vars

\* C7: every memory access of an instruction (the fetch, LD/LDI/LDR,
\* ST/STI/STR) uses a cell inside the memory array, for every 16-bit address,
\* 0xFFFF included.
C7_AccessInsideArray ==
    (cycles > 0 /\ OpOf(instruction) # OP_TRAP) =>
        \A i \in DOMAIN mem_index : mem_index[i] < UINT16_MAX

\* C8: the PC-relative instructions fetched at address A (a taken BR, LD, LDI,
\* LEA, ST, STI, JSR with bit 11 set) use the address
\* (A + 1 + sign_extend(offset)) mod 65536.
C8_PcRelative ==
    [][Stepped =>
        LET ins == instruction'
            op  == OpOf(ins)
            dr  == Field(ins, 9, 7)
            t9  == Target(NextPc, ins, 9)
            t11 == Target(NextPc, ins, 11)
        IN  /\ (op = OP_BR /\ BitAnd(dr, registers[R_COND]) # 0)
                   => registers'[R_PC] = t9
            /\ op = OP_LEA => registers'[dr] = t9
            /\ op \in {OP_LD, OP_LDI, OP_ST, OP_STI} => mem_index'[2] = t9
            /\ (op = OP_LD /\ t9 < UINT16_MAX)
                   => registers'[dr] = MemAt(memory, t9)
            /\ (op = OP_ST /\ t9 < UINT16_MAX)
                   => memory' = Store(memory, t9, registers[dr])
            /\ (op = OP_JSR /\ (ins \div 2048) % 2 = 1)
                   => registers'[R_PC] = t11]_vars

\* C8 witness: LEA R1 with offset9 = 0x1FF fetched at 0x3000 has put 0x3000 in
\* R1.
C8_Witness ==
    /\ cycles > 0
    /\ instruction = 58367
    /\ mem_index[1] = 12288
    /\ registers[R_R1] = 12288

\* C9: a flag-updating instruction leaves COND one of POS, ZRO, NEG, and once
\* COND is one of the three, no instruction or trap makes it anything else.
C9_CondOneFlag ==
    [][/\ (Stepped /\ OpOf(instruction') \in FlagOps)
              => registers'[R_COND] \in Flags
       /\ registers[R_COND] \in Flags => registers'[R_COND] \in Flags]_vars

\* C9 witness: a trap has run after a flag-updating instruction stored NEG,
\* and COND is still NEG.
C9_Witness ==
    /\ cycles >= 2
    /\ OpOf(instruction) = OP_TRAP
    /\ registers[R_COND] = FL_NEG

\* C10: the engine stops running only in a cycle that executes TRAP with
\* vector 0x25; every other instruction and every other trap vector leaves it
\* running.
C10_OnlyHaltStops ==
    [][/\ (running /\ ~running') => ExecutesHalt
       /\ (Stepped /\ ~ExecutesHalt) => running']_vars

\* C10 witness: still running after a trap with another vector and a later
\* cycle.
C10_Witness ==
    /\ running
    /\ cycles >= 2
    /\ OpOf(instruction) = OP_TRAP
    /\ instruction % 256 # TRAP_HALT
    /\ Len(output) > 0

----------------------------------------------------------------------------
\* The flag that matches a 16-bit value: ZRO for 0, NEG when bit 15 is set,
\* POS otherwise.
SignFlag(v) ==
    IF v = 0 THEN FL_ZRO ELSE IF v >= 32768 THEN FL_NEG ELSE FL_POS

\* The register file with only PC advanced to the next instruction.
OnlyPcAdvanced == [registers EXCEPT ![R_PC] = NextPc]

\* C11: a cycle that fetches opcode 8 (RTI) or 13 (reserved), or a TRAP whose
\* vector is not in 0x20..0x25, only advances PC by one: R0..R7, COND, the
\* memory and the running state are unchanged and nothing is output.
C11_NoOps ==
    [][(/\ Stepped
        /\ \/ OpOf(instruction') \in {8, 13}
           \/ /\ OpOf(instruction') = 15
              /\ instruction' % 256 \notin 32..37) =>
        /\ registers' = OnlyPcAdvanced
        /\ memory' = memory
        /\ running' = running
        /\ output' = output]_vars

\* C11 witness: a TRAP with vector 0x26 has run after R1 was set to 5 by an
\* ADD, and the machine still runs.
C11_Witness ==
    /\ cycles >= 2
    /\ instruction = 61478
    /\ registers[R_R1] = 5
    /\ registers[R_COND] = FL_POS
    /\ running

\* C12: every TRAP cycle leaves R1..R7, COND and the memory unchanged and PC
\* at the next address; it changes R0 only for GETC and IN and the running
\* flag only for HALT.
C12_TrapFrame ==
    [][(Stepped /\ OpOf(instruction') = 15) =>
        LET vector == instruction' % 256
        IN  /\ \A r \in (1..7) \cup {R_COND} : registers'[r] = registers[r]
            /\ registers'[R_PC] = NextPc
            /\ memory' = memory
            /\ registers'[R_R0] # registers[R_R0] => vector \in {32, 35}
            /\ running' # running => vector = 37]_vars

\* C12 witness: TRAP GETC has put the character 'A' in R0 while R1 still
\* holds the 5 an ADD left there.
C12_Witness ==
    /\ cycles >= 2
    /\ instruction = 61472
    /\ registers[R_R0] = 65
    /\ registers[R_R1] = 5

\* The step executes LD, LDR, LEA or a BR that is not taken.
ReadOnlyStep ==
    /\ Stepped
    /\ \/ OpOf(instruction') \in {OP_LD, OP_LDR, OP_LEA}
       \/ /\ OpOf(instruction') = OP_BR
          /\ BitAnd(Field(instruction', 9, 7), registers[R_COND]) = 0

\* C13: LD, LDR, LEA and a BR that is not taken leave every memory word as it
\* was, so any sequence of them leaves the memory unchanged.
C13_ReadsKeepMemory ==
    [][ReadOnlyStep => memory' = memory]_vars

\* C13 witness: LD R1, #-1 fetched at 0x3000 has loaded its own word, and
\* that word is still in memory.
C13_Witness ==
    /\ cycles >= 1
    /\ instruction = 9215
    /\ registers[R_R1] = 9215
    /\ MemAt(memory, 12288) = 9215

\* C14: a store (ST, STI, STR) or a control transfer (BR, JMP, JSR) leaves
\* COND unchanged.
C14_StoresKeepCond ==
    [][(Stepped /\ OpOf(instruction') \in
            {OP_ST, OP_STI, OP_STR, OP_BR, OP_JMP, OP_JSR}) =>
        registers'[R_COND] = registers[R_COND]]_vars

\* C14 witness: ST R0 has stored the negative R0 that NOT R0 produced; COND
\* is still NEG and the word is in memory.
C14_Witness ==
    /\ cycles >= 2
    /\ instruction = 12288
    /\ registers[R_R0] = 65535
    /\ registers[R_COND] = FL_NEG
    /\ MemAt(memory, mem_index[2]) = 65535

\* C15: ADD gives DR = (SR1 + sign_extend(imm5)) mod 2^16 when bit 5 is 1 and
\* DR = (SR1 + SR2) mod 2^16 when bit 5 is 0, and sets COND from DR.
C15_Add ==
    [][(Stepped /\ OpOf(instruction') = OP_ADD) =>
        LET ins == instruction'
            dr  == (ins \div 512) % 8
            sr1 == (ins \div 64) % 8
            sr2 == ins % 8
            rhs == IF (ins \div 32) % 2 = 1 THEN Signed(ins, 5)
                   ELSE registers[sr2]
        IN  /\ registers'[dr] = (registers[sr1] + rhs) % 65536
            /\ registers'[R_COND] = SignFlag(registers'[dr])]_vars

\* C15 witness: with R1 = 5, ADD R0, R1, #-3 has left R0 = 2 and COND = POS.
C15_Witness ==
    /\ instruction = 4221
    /\ registers[R_R1] = 5
    /\ registers[R_R0] = 2
    /\ registers[R_COND] = FL_POS

----------------------------------------------------------------------------
\* C16: for every 16-bit v and every n in 1..16, sign_extend(v & mask(n), n)
\* is the 16-bit two's-complement encoding of the signed integer the low n
\* bits of v denote: the low n bits are unchanged and bits n..15 are all 1 when
\* bit n-1 is 1, all 0 otherwise.
C16_SignExtend ==
    se_call.returned =>
        LET x == se_call.x
            n == se_call.bit_count
            r == se_call.result
        IN  /\ r = Signed(x, n) % 65536
            /\ r % (2 ^ n) = x
            /\ r \div (2 ^ n) =
                   IF (x \div (2 ^ (n - 1))) % 2 = 1 THEN 2 ^ (16 - n) - 1 ELSE 0

\* C16 witness: sign_extend(0x1FF, 9) has returned 0xFFFF.
C16_Witness ==
    /\ se_call.returned
    /\ se_call.x = 511
    /\ se_call.bit_count = 9
    /\ se_call.result = 65535

----------------------------------------------------------------------------
RECURSIVE ClaimedString(_, _)
\* The low bytes of Memory[a], Memory[a+1], ... with the addresses taken mod
\* 65536, up to the first zero word; at most `fuel` words.  A word at address
\* 0xFFFF that was never stored is zero.
ClaimedString(a, fuel) ==
    IF fuel = 0 \/ MemAt(memory, a) = 0 THEN <<>>
    ELSE <<MemAt(memory, a) % 256>>
             \o ClaimedString((a + 1) % 65536, fuel - 1)

\* C17: TRAP PUTS with R0 = a emits exactly the low bytes of Memory[a],
\* Memory[a+1], ... (addresses mod 65536) up to the first zero word, and
\* nothing for the zero word or after it.
C17_Puts ==
    [][(/\ Stepped
        /\ OpOf(instruction') = 15
        /\ instruction' % 256 = 34) =>
        output' = output \o ClaimedString(registers[R_R0], 65536)]_vars

\* The word i of an image file (word 0 is the origin), read big-endian.
FileWord(file, i) == file[2 * i + 1] * 256 + file[2 * i + 2]

\* C18: loading the image [origin, w1, ..., wN] leaves
\* Memory[(origin + i - 1) mod 65536] = wi for every i in 1..N, also where the
\* address passes 0xFFFF and wraps, and leaves every other memory word as it
\* was.
C18_LoadWraps ==
    [][(phase = "load" /\ phase' = "loop") =>
        LET file    == image_file'
            N       == Len(file) \div 2 - 1
            origin  == FileWord(file, 0)
            addr(i) == (origin + i - 1) % 65536
            covered == {addr(i) : i \in 1..N}
        IN  /\ \A i \in 1..N :
                   /\ addr(i) < UINT16_MAX
                   /\ MemAt(memory', addr(i)) = FileWord(file, i)
            /\ \A a \in (DOMAIN memory \cup DOMAIN memory') \ covered :
                   MemAt(memory', a) = MemAt(memory, a)]_vars

----------------------------------------------------------------------------
\* C19: the registers start at zero and the loop starts with PC = 0x3000; as
\* long as no flag-updating instruction has executed COND is 0, and then every
\* BR, cond = 0b111 included, is not taken: PC is the address after the BR.
C19_CondZeroAtStart ==
    /\ registers[R_COND] = 0
    /\ [][/\ (phase = "load" /\ phase' = "loop") => registers'[R_PC] = 12288
          /\ (/\ registers[R_COND] = 0
              /\ ~(Stepped /\ OpOf(instruction') \in FlagOps)) =>
                 /\ registers'[R_COND] = 0
                 /\ (Stepped /\ OpOf(instruction') = OP_BR)
                        => registers'[R_PC] = NextPc]_vars

\* C19 witness: BRnzp #1 fetched at 0x3000 was not taken: COND is 0 and PC is
\* 0x3001.
C19_Witness ==
    /\ cycles = 1
    /\ instruction = 3585
    /\ registers[R_COND] = 0
    /\ registers[R_PC] = 12289

\* C20: every index into the register file that an iteration uses is in 0..9;
\* the indices handed to update_condition and the DR/SR/BaseR indices are
\* 3-bit field values.
C20_RegisterIndexInRange ==
    reg_index \subseteq 0..9

====
